---- MODULE Spec2Model ----
(***************************************************************************)
(* Model of the sequential batch driver of run_fast.py: main, the retry    *)
(* loop of analyze_pair_sequential, the CSV store and the in-memory        *)
(* accumulator all_results.                                                *)
(*                                                                         *)
(* Python values are tagged records so that None, a string and a list are  *)
(* never confused: None is [t |-> "none"], the string s is                 *)
(* [t |-> "str", v |-> s], a JSON array is [t |-> "list", v |-> <<..>>]    *)
(* and a JSON object is [t |-> "dict", v |-> f] with f a function from its *)
(* keys to values.                                                         *)
(***************************************************************************)
EXTENDS Integers, Sequences, FiniteSets, TLC

VARIABLES
    pc,           \* position of the process in main / analyze_pair_sequential
    pairs,        \* dict pairs of main: pair id -> set of sides found
    fileExists,   \* whether OUTPUT_CSV exists on disk
    disk,         \* rows of OUTPUT_CSV that reached the disk
    buf,          \* rows written to the file object f and not yet flushed
    write_header, \* local write_header of main
    all_results,  \* list all_results of main
    idx,          \* loop variable idx of main (0 before the first pair)
    pidx,         \* position of the loop variable persona in PERSONAS
    attempt,      \* attempts of the retry loop finished so far (the value of
                  \* the loop variable attempt at the next iteration)
    calls,        \* service calls made by the current controller call
    nRate,        \* RateLimitError raised in the current controller call
    nsleeps,      \* time.sleep calls made by the current controller call
    lastSleep,    \* duration of its most recent time.sleep (0: none yet)
    last,         \* outcome of its most recent service call
    result,       \* value returned by analyze_pair_sequential
    started,      \* calls of analyze_pair_sequential made by this run
    skipped,      \* calls of analyze_pair_sequential that returned None
    tasks,        \* the (pair id, persona id) of each of these calls, in order
    paces,        \* durations of the pacing sleeps of this run, in order
    report,       \* whether generate_html_report wrote OUTPUT_HTML in this run
    exc           \* exception that ended main ("none": no exception)

vars == <<pc, pairs, fileExists, disk, buf, write_header, all_results, idx,
          pidx, attempt, calls, nRate, nsleeps, lastSleep, last, result,
          started, skipped, tasks, paces, report, exc>>

-----------------------------------------------------------------------------
(* Bounds of the model *)

\* pair ids that the directory listing may contain are 1..MaxPairId
MaxPairId == 2

PairIds == 1..MaxPairId

Sides == {"A", "B"}

-----------------------------------------------------------------------------
(* Program constants *)

max_retries == 5

\* random.uniform(1, 3), in whole seconds
JitterMin == 1
JitterMax == 3
Jitter == JitterMin..JitterMax

RateLimitBase == 5
ApiErrorSleep == 5
PacingSleep == 1

\* The roster PERSONAS, in source order.  The model keeps its first two
\* entries; the remaining ten are handled by the same loop body.
PERSONAS == <<"P1_Traditionalist", "P2_Trendsetter">>

PAIR_STRATEGY ==
    [i \in 1..9 |->
        CASE i = 1 -> "Authority"
          [] i = 2 -> "Social Proof"
          [] i = 3 -> "Scarcity"
          [] i = 4 -> "Emotional Appeal"
          [] i = 5 -> "Personal Identity"
          [] i = 6 -> "Humor"
          [] i = 7 -> "Trustworthiness"
          [] i = 8 -> "Familiarity"
          [] i = 9 -> "Novelty"]

\* PAIR_STRATEGY.get(idx, "Unknown")
Strategy(i) == IF i \in DOMAIN PAIR_STRATEGY THEN PAIR_STRATEGY[i] ELSE "Unknown"

fieldnames == <<"Pair_ID", "Strategy", "Persona_ID", "Choice", "Rationale",
                "Difficulty_Ranking", "Difficulty_Reasoning", "Status">>

-----------------------------------------------------------------------------
(* Python values *)

None == [t |-> "none"]
Str(s) == [t |-> "str", v |-> s]
Dict(f) == [t |-> "dict", v |-> f]
List(s) == [t |-> "list", v |-> s]

\* d.get(k) of a dict d
Get(d, k) == IF k \in DOMAIN d.v THEN d.v[k] ELSE None

\* "not content" for content that is None or a string
IsEmptyContent(c) == c = None \/ c = Str("")

\* repr(x) of a str without quotes or escapes in it
PyRepr(x) == "'" \o x.v \o "'"

\* ", ".join(repr(e) for e in s)
RECURSIVE JoinRepr(_)
JoinRepr(s) ==
    IF s = <<>> THEN ""
    ELSE IF Len(s) = 1 THEN PyRepr(s[1])
    ELSE PyRepr(s[1]) \o ", " \o JoinRepr(Tail(s))

\* str(x)
PyStr(x) ==
    CASE x.t = "none" -> "None"
      [] x.t = "str" -> x.v
      [] x.t = "list" -> "[" \o JoinRepr(x.v) \o "]"

-----------------------------------------------------------------------------
(* The external judgment service *)

ObjA == "{\"chosen_image\": \"A\", \"rationale\": \"r\", \"difficulty_ranking\": \"Easy\", \"difficulty_reason\": \"d\"}"
ObjB == "{\"chosen_image\": \"B\", \"rationale\": \"r\", \"difficulty_ranking\": \"Hard\", \"difficulty_reason\": \"d\"}"

ObjNoRationale == "{\"chosen_image\": \"A\"}"

\* json.loads on the texts the model's service returns: [ok |-> FALSE] is a
\* JSONDecodeError, otherwise val is the decoded value
json_loads(text) ==
    CASE text = "{}" -> [ok |-> TRUE, val |-> Dict(<<>>)]
      [] text = "[]" -> [ok |-> TRUE, val |-> List(<<>>)]
      [] text = ObjA ->
           [ok |-> TRUE,
            val |-> Dict([chosen_image |-> Str("A"), rationale |-> Str("r"),
                          difficulty_ranking |-> Str("Easy"),
                          difficulty_reason |-> Str("d")])]
      [] text = ObjB ->
           [ok |-> TRUE,
            val |-> Dict([chosen_image |-> Str("B"), rationale |-> Str("r"),
                          difficulty_ranking |-> Str("Hard"),
                          difficulty_reason |-> Str("d")])]
      [] text = ObjNoRationale ->
           [ok |-> TRUE, val |-> Dict([chosen_image |-> Str("A")])]
      [] OTHER -> [ok |-> FALSE]

\* response.choices[0].message.content of a call that returns
Contents == {None, Str(""), Str("I cannot help"), Str("[]"), Str("{}"),
             Str(ObjA), Str(ObjB)}

\* lines 99-102: json.loads(content) succeeds and data.get exists
Parses(c) == json_loads(c.v).ok /\ json_loads(c.v).val.t = "dict"

\* lines 106-115: the record returned for the decoded object data
MakeRecord(i, persona, data) ==
    [Pair_ID |-> i,
     Strategy |-> Strategy(i),
     Persona_ID |-> persona,
     Choice |-> Get(data, "chosen_image"),
     Rationale |-> Get(data, "rationale"),
     Difficulty_Ranking |-> Str(PyStr(Get(data, "difficulty_ranking"))),
     Difficulty_Reasoning |-> Get(data, "difficulty_reason"),
     Status |-> Str("Success")]

\* "if result:" of main: None is falsy, a dict with keys is truthy
Truthy(r) == r # None

-----------------------------------------------------------------------------
(* The store *)

\* csv.DictWriter: None is written as the empty string, anything else as str()
CsvField(x) == IF x = None THEN "" ELSE PyStr(x)

\* writer.writerow(result)
Row(r) ==
    <<ToString(r.Pair_ID), r.Strategy, r.Persona_ID, CsvField(r.Choice),
      CsvField(r.Rationale), CsvField(r.Difficulty_Ranking),
      CsvField(r.Difficulty_Reasoning), CsvField(r.Status)>>

-----------------------------------------------------------------------------
(* State after the module is loaded and before main is called *)

Init ==
    /\ pc = "idle"
    /\ pairs = <<>>
    /\ fileExists = FALSE
    /\ disk = <<>>
    /\ buf = <<>>
    /\ write_header = FALSE
    /\ all_results = <<>>
    /\ idx = 0
    /\ pidx = 0
    /\ attempt = 0
    /\ calls = 0
    /\ nRate = 0
    /\ nsleeps = 0
    /\ lastSleep = 0
    /\ last = "none"
    /\ result = None
    /\ started = 0
    /\ skipped = 0
    /\ tasks = <<>>
    /\ paces = <<>>
    /\ report = FALSE
    /\ exc = "none"

controller == <<attempt, calls, nRate, nsleeps, lastSleep, last>>
store == <<fileExists, disk, buf>>
counters == <<started, skipped, tasks, paces>>

\* the keys of pairs that have both sides
Complete(p) == {i \in DOMAIN p : "A" \in p[i] /\ "B" \in p[i]}

\* the directory listings os.listdir may return, as the dict built from them
PairMaps == UNION {[keys -> (SUBSET Sides) \ {{}}] : keys \in SUBSET PairIds}

-----------------------------------------------------------------------------
(* main, lines 199-217 *)

\* MainNoDir with the test of IMAGE_DIR made after OUTPUT_CSV is opened: the
\* store is created or truncated before main returns
MainNoDirOpensStore ==
    /\ pc = "idle"
    /\ pc' = "done"
    /\ fileExists' = TRUE
    /\ disk' = <<>>
    /\ buf' = <<>>
    /\ UNCHANGED <<pairs, write_header, all_results, idx, pidx,
                   controller, result, counters, report, exc>>

\* lines 206-208: IMAGE_DIR does not exist
MainNoDir ==
    /\ pc = "idle"
    /\ pc' = "done"
    /\ UNCHANGED <<pairs, store, write_header, all_results, idx, pidx,
                   controller, result, counters, report, exc>>

\* lines 203-217: IMAGE_DIR exists, its listing gives the dict p
Discover ==
    /\ pc = "idle"
    /\ \E p \in PairMaps : pairs' = p
    /\ pc' = "open"
    /\ UNCHANGED <<store, write_header, all_results, idx, pidx, controller,
                   result, counters, report, exc>>

\* lines 220-229: the store is opened with mode "w", which creates or
\* truncates it; the header is written when the file did not exist before
OpenStore ==
    /\ pc = "open"
    /\ all_results' = <<>>
    /\ write_header' = ~fileExists
    /\ fileExists' = TRUE
    /\ disk' = <<>>
    /\ buf' = IF ~fileExists THEN <<fieldnames>> ELSE <<>>
    /\ pc' = "loop"
    /\ UNCHANGED <<pairs, idx, pidx, controller, result, counters, report, exc>>

\* the keys that "for idx in sorted(pairs.keys())" has not visited yet
Rest == {i \in DOMAIN pairs : i > idx}
NextKey == CHOOSE i \in Rest : \A j \in Rest : i <= j

\* line 233: the next pair lacks a side, "continue"
SkipPair ==
    /\ pc = "loop"
    /\ Rest # {}
    /\ NextKey \notin Complete(pairs)
    /\ idx' = NextKey
    /\ UNCHANGED <<pc, pairs, store, write_header, all_results, pidx,
                   controller, result, counters, report, exc>>

\* lines 232-239: the next pair has both sides, its persona loop starts
EnterPair ==
    /\ pc = "loop"
    /\ Rest # {}
    /\ NextKey \in Complete(pairs)
    /\ idx' = NextKey
    /\ pidx' = 1
    /\ pc' = "task"
    /\ UNCHANGED <<pairs, store, write_header, all_results, controller,
                   result, counters, report, exc>>

\* the pair loop is exhausted; leaving the with block closes f, which
\* flushes what is still buffered
CloseStore ==
    /\ pc = "loop"
    /\ Rest = {}
    /\ disk' = disk \o buf
    /\ buf' = <<>>
    /\ pc' = "report"
    /\ UNCHANGED <<pairs, fileExists, write_header, all_results, idx, pidx,
                   controller, result, counters, report, exc>>

-----------------------------------------------------------------------------
(* analyze_pair_sequential, lines 51-131 *)

\* BackoffBase without the scaling by the attempt number
BackoffBaseFlat(a) == RateLimitBase

\* line 118, without the jitter: the backoff base of the attempt numbered a
BackoffBase(a) == RateLimitBase * (a + 1)

\* LastAttempt with the loop bound off by one: range(max_retries + 1)
LastAttemptOneMore(a) == a + 1 >= max_retries + 1

\* line 77: the attempt numbered a was the last one of range(max_retries)
LastAttempt(a) == a + 1 >= max_retries

\* ResetController with the attempt counter kept from the call before, as if
\* the retry budget were shared by all tasks
ResetControllerKeepsAttempt ==
    /\ attempt' = attempt
    /\ calls' = 0
    /\ nRate' = 0
    /\ nsleeps' = 0
    /\ lastSleep' = 0
    /\ last' = "none"

\* the bookkeeping of one controller call starts again from nothing
ResetController ==
    /\ attempt' = 0
    /\ calls' = 0
    /\ nRate' = 0
    /\ nsleeps' = 0
    /\ lastSleep' = 0
    /\ last' = "none"

\* lines 240, 55-56, 76-77: main calls the controller, both images are read
\* and encoded, the retry loop starts
EncodeOk ==
    /\ pc = "task"
    /\ started' = started + 1
    /\ tasks' = Append(tasks, <<idx, PERSONAS[pidx]>>)
    /\ ResetController
    /\ pc' = "call"
    /\ UNCHANGED <<pairs, store, write_header, all_results, idx, pidx, result,
                   skipped, paces, report, exc>>

\* lines 55-56, 47-49: open() or read() of an image raises (the file was
\* removed, is unreadable or is a directory); the calls are outside the try
\* statement, so the exception leaves analyze_pair_sequential and main, and
\* the with block of main closes the store on the way out
EncodeFail ==
    /\ pc = "task"
    /\ started' = started + 1
    /\ tasks' = Append(tasks, <<idx, PERSONAS[pidx]>>)
    /\ disk' = disk \o buf
    /\ buf' = <<>>
    /\ pc' = "crashed"
    /\ exc' = "OSError"
    /\ UNCHANGED <<pairs, fileExists, write_header, all_results, idx, pidx,
                   controller, result, skipped, paces, report>>

\* what every return statement of the controller does in the model
Return(kind, value) ==
    /\ calls' = calls + 1
    /\ last' = kind
    /\ result' = value
    /\ pc' = "ret"
    /\ UNCHANGED <<attempt, nRate, nsleeps, lastSleep>>

\* Retry that does not sleep after the failure of the last attempt
RetryNoSleepAtEnd(kind, d) ==
    /\ calls' = calls + 1
    /\ last' = kind
    /\ attempt' = attempt + 1
    /\ IF LastAttempt(attempt)
         THEN /\ nsleeps' = nsleeps
              /\ lastSleep' = lastSleep
              /\ result' = None
              /\ pc' = "ret"
         ELSE /\ nsleeps' = nsleeps + 1
              /\ lastSleep' = d
              /\ result' = result
              /\ pc' = "call"

\* what both retrying handlers do after their sleep of d seconds: the for
\* loop goes to the next attempt, or ends and line 131 returns None
Retry(kind, d) ==
    /\ calls' = calls + 1
    /\ last' = kind
    /\ nsleeps' = nsleeps + 1
    /\ lastSleep' = d
    /\ attempt' = attempt + 1
    /\ IF LastAttempt(attempt)
         THEN result' = None /\ pc' = "ret"
         ELSE result' = result /\ pc' = "call"

\* lines 79-115: the service returns content that decodes to an object
AttemptVerdict ==
    /\ pc = "call"
    /\ \E c \in Contents :
         /\ ~IsEmptyContent(c)
         /\ Parses(c)
         /\ Return("verdict",
                   MakeRecord(idx, PERSONAS[pidx], json_loads(c.v).val))
    /\ UNCHANGED <<pairs, store, write_header, all_results, idx, pidx,
                   counters, report, exc>>

\* AttemptEmpty with empty content handled like a transient error
AttemptEmptyRetried ==
    /\ pc = "call"
    /\ \E c \in Contents :
         /\ IsEmptyContent(c)
         /\ Retry("empty", ApiErrorSleep)
    /\ nRate' = nRate
    /\ UNCHANGED <<pairs, store, write_header, all_results, idx, pidx,
                   counters, report, exc>>

\* lines 96-97: the content is None or ""
AttemptEmpty ==
    /\ pc = "call"
    /\ \E c \in Contents :
         /\ IsEmptyContent(c)
         /\ Return("empty", None)
    /\ UNCHANGED <<pairs, store, write_header, all_results, idx, pidx,
                   counters, report, exc>>

\* AttemptMalformed with the parse failure handled like a transient error
AttemptMalformedRetried ==
    /\ pc = "call"
    /\ \E c \in Contents :
         /\ ~IsEmptyContent(c)
         /\ ~Parses(c)
         /\ Retry("malformed", ApiErrorSleep)
    /\ nRate' = nRate
    /\ UNCHANGED <<pairs, store, write_header, all_results, idx, pidx,
                   counters, report, exc>>

\* lines 99-102, 126-128: json.loads raises, or the decoded value has no get
AttemptMalformed ==
    /\ pc = "call"
    /\ \E c \in Contents :
         /\ ~IsEmptyContent(c)
         /\ ~Parses(c)
         /\ Return("malformed", None)
    /\ UNCHANGED <<pairs, store, write_header, all_results, idx, pidx,
                   counters, report, exc>>

\* lines 126-128: the service call raises an exception that is neither a
\* RateLimitError nor an APIError
AttemptFatal ==
    /\ pc = "call"
    /\ Return("error", None)
    /\ UNCHANGED <<pairs, store, write_header, all_results, idx, pidx,
                   counters, report, exc>>

\* lines 117-120: the service call raises RateLimitError
AttemptRateLimit ==
    /\ pc = "call"
    /\ \E j \in Jitter : Retry("rate_limit", BackoffBase(attempt) + j)
    /\ nRate' = nRate + 1
    /\ UNCHANGED <<pairs, store, write_header, all_results, idx, pidx,
                   counters, report, exc>>

\* AttemptAPIError with the escalating backoff of the rate limit handler
AttemptAPIErrorScaled ==
    /\ pc = "call"
    /\ Retry("api_error", BackoffBase(attempt))
    /\ nRate' = nRate
    /\ UNCHANGED <<pairs, store, write_header, all_results, idx, pidx,
                   counters, report, exc>>

\* lines 122-124: the service call raises another APIError
AttemptAPIError ==
    /\ pc = "call"
    /\ Retry("api_error", ApiErrorSleep)
    /\ nRate' = nRate
    /\ UNCHANGED <<pairs, store, write_header, all_results, idx, pidx,
                   counters, report, exc>>

-----------------------------------------------------------------------------
(* main, lines 240-252 *)

\* lines 242-243: the result is truthy, its row is written to f
WriteRow ==
    /\ pc = "ret"
    /\ Truthy(result)
    /\ buf' = Append(buf, Row(result))
    /\ ResetController
    /\ pc' = "flush"
    /\ UNCHANGED <<pairs, fileExists, disk, write_header, all_results, idx,
                   pidx, result, counters, report, exc>>

\* SkipResult with "break" in place of falling through to the pacing sleep:
\* a None result ends the persona loop of the pair
SkipResultBreak ==
    /\ pc = "ret"
    /\ ~Truthy(result)
    /\ skipped' = skipped + 1
    /\ ResetController
    /\ result' = None
    /\ pc' = "loop"
    /\ UNCHANGED <<pairs, store, write_header, all_results, idx, pidx,
                   started, tasks, paces, report, exc>>

\* SkipResult with the pacing sleep inside "if result:": a None result goes on
\* to the next task without sleeping
SkipResultUnpaced ==
    /\ pc = "ret"
    /\ ~Truthy(result)
    /\ skipped' = skipped + 1
    /\ ResetController
    /\ IF pidx < Len(PERSONAS)
         THEN pidx' = pidx + 1 /\ pc' = "task"
         ELSE pidx' = pidx /\ pc' = "loop"
    /\ UNCHANGED <<pairs, store, write_header, all_results, idx,
                   result, started, tasks, paces, report, exc>>

\* line 242: the result is None, nothing is recorded
SkipResult ==
    /\ pc = "ret"
    /\ ~Truthy(result)
    /\ skipped' = skipped + 1
    /\ ResetController
    /\ pc' = "pace"
    /\ UNCHANGED <<pairs, store, write_header, all_results, idx, pidx,
                   result, started, tasks, paces, report, exc>>

\* Flush that writes the buffer out and forgets to empty it
FlushKeepsBuffer ==
    /\ pc = "flush"
    /\ disk' = disk \o buf
    /\ buf' = buf
    /\ pc' = "append"
    /\ UNCHANGED <<pairs, fileExists, write_header, all_results, idx, pidx,
                   controller, result, counters, report, exc>>

\* Flush left out: the row stays in the buffer until the file is closed
FlushDeferred ==
    /\ pc = "flush"
    /\ pc' = "append"
    /\ UNCHANGED <<pairs, store, write_header, all_results, idx, pidx,
                   controller, result, counters, report, exc>>

\* Flush that writes the buffered rows at the start of the file
FlushPrepends ==
    /\ pc = "flush"
    /\ disk' = buf \o disk
    /\ buf' = <<>>
    /\ pc' = "append"
    /\ UNCHANGED <<pairs, fileExists, write_header, all_results, idx, pidx,
                   controller, result, counters, report, exc>>

\* line 244: f.flush()
Flush ==
    /\ pc = "flush"
    /\ disk' = disk \o buf
    /\ buf' = <<>>
    /\ pc' = "append"
    /\ UNCHANGED <<pairs, fileExists, write_header, all_results, idx, pidx,
                   controller, result, counters, report, exc>>

\* AppendResult that puts the record at the front of all_results
AppendResultInFront ==
    /\ pc = "append"
    /\ all_results' = <<result>> \o all_results
    /\ pc' = "pace"
    /\ UNCHANGED <<pairs, store, write_header, idx, pidx, controller, result,
                   counters, report, exc>>

\* line 245: all_results.append(result)
AppendResult ==
    /\ pc = "append"
    /\ all_results' = Append(all_results, result)
    /\ pc' = "pace"
    /\ UNCHANGED <<pairs, store, write_header, idx, pidx, controller, result,
                   counters, report, exc>>

\* lines 248, 239: time.sleep(1), then the next persona or the next pair
Pace ==
    /\ pc = "pace"
    /\ paces' = Append(paces, PacingSleep)
    /\ result' = None
    /\ IF pidx < Len(PERSONAS)
         THEN pidx' = pidx + 1 /\ pc' = "task"
         ELSE pidx' = pidx /\ pc' = "loop"
    /\ UNCHANGED <<pairs, store, write_header, all_results, idx, controller,
                   started, skipped, tasks, report, exc>>

-----------------------------------------------------------------------------
(* generate_html_report, lines 133-197 *)

\* position of a persona id in the string order that results.sort uses
\* ("P10_..." < "P11_..." < "P12_..." < "P1_..." < "P2_..." < ... )
PersonaKey(id) ==
    CASE id = "P1_Traditionalist" -> 4
      [] id = "P2_Trendsetter" -> 5
      [] OTHER -> 0

\* line 167: the sort key (Pair_ID, Persona_ID), compared as a tuple
KeyLeq(r1, r2) ==
    \/ r1.Pair_ID < r2.Pair_ID
    \/ /\ r1.Pair_ID = r2.Pair_ID
       /\ PersonaKey(r1.Persona_ID) <= PersonaKey(r2.Persona_ID)

RECURSIVE InsertSorted(_, _)
InsertSorted(r, s) ==
    IF s = <<>> THEN <<r>>
    ELSE IF KeyLeq(Head(s), r) THEN <<Head(s)>> \o InsertSorted(r, Tail(s))
    ELSE <<r>> \o s

\* line 167: results.sort(key=...), a stable sort
RECURSIVE SortResults(_)
SortResults(s) ==
    IF s = <<>> THEN <<>>
    ELSE InsertSorted(s[Len(s)], SortResults(SubSeq(s, 1, Len(s) - 1)))

\* lines 169-197, 251-252: every key of pairs has both sides, the report is
\* written and main returns
Report ==
    /\ pc = "report"
    /\ DOMAIN pairs \subseteq Complete(pairs)
    /\ all_results' = SortResults(all_results)
    /\ report' = TRUE
    /\ pc' = "done"
    /\ UNCHANGED <<pairs, store, write_header, idx, pidx, controller, result,
                   counters, exc>>

\* lines 174-175: pairs[pair_id]['A'] or ['B'] raises KeyError for a key that
\* lacks the side; nothing is written to OUTPUT_HTML
ReportKeyError ==
    /\ pc = "report"
    /\ ~(DOMAIN pairs \subseteq Complete(pairs))
    /\ all_results' = SortResults(all_results)
    /\ pc' = "crashed"
    /\ exc' = "KeyError"
    /\ UNCHANGED <<pairs, store, write_header, idx, pidx, controller, result,
                   counters, report>>

\* the script is started again: a new process, the same store file
Rerun ==
    /\ pc \in {"done", "crashed"}
    /\ pc' = "idle"
    /\ pairs' = <<>>
    /\ write_header' = FALSE
    /\ all_results' = <<>>
    /\ idx' = 0
    /\ pidx' = 0
    /\ ResetController
    /\ result' = None
    /\ started' = 0
    /\ skipped' = 0
    /\ tasks' = <<>>
    /\ paces' = <<>>
    /\ report' = FALSE
    /\ exc' = "none"
    /\ UNCHANGED store

Next ==
    \/ MainNoDir
    \/ Discover
    \/ OpenStore
    \/ SkipPair
    \/ EnterPair
    \/ CloseStore
    \/ EncodeOk
    \/ EncodeFail
    \/ AttemptVerdict
    \/ AttemptEmpty
    \/ AttemptMalformed
    \/ AttemptFatal
    \/ AttemptRateLimit
    \/ AttemptAPIError
    \/ WriteRow
    \/ SkipResult
    \/ Flush
    \/ AppendResult
    \/ Pace
    \/ Report
    \/ ReportKeyError
    \/ Rerun

Spec == Init /\ [][Next]_vars

-----------------------------------------------------------------------------
(* run_pvp__slow.py: analyze_pair and main.  The script has its own store   *)
(* file and report; a run of it uses the same variables, with pc values     *)
(* that start with "slow_", and leaves the retry bookkeeping untouched.     *)

SlowHeader == <<"Pair_ID", "Strategy", "Persona_ID", "Choice", "Rationale",
                "Difficulty_Ranking", "Difficulty_Reasoning">>

\* the contents the service may return to the slow driver
SlowContents == Contents \cup {Str(ObjNoRationale)}

\* line 111: json.loads(content) returns a value; it raises TypeError for
\* None and JSONDecodeError for text that is not JSON
Decodes(c) == IF c = None THEN FALSE ELSE json_loads(c.v).ok

\* truth value of a decoded JSON value, "if data:"
PyTruthy(x) ==
    CASE x.t = "none" -> FALSE
      [] x.t = "str" -> x.v # ""
      [] x.t = "list" -> x.v # <<>>
      [] x.t = "dict" -> DOMAIN x.v # {}

\* lines 244-252 of run_pvp__slow.py: the dict row
SlowMakeRow(i, persona, data) ==
    [Pair_ID |-> i,
     Strategy |-> Strategy(i),
     Persona_ID |-> persona,
     Choice |-> Get(data, "chosen_image"),
     Rationale |-> Get(data, "rationale"),
     Difficulty_Ranking |-> Str(PyStr(Get(data, "difficulty_ranking"))),
     Difficulty_Reasoning |-> Get(data, "difficulty_reason")]

\* line 256: writer.writerow(row.values())
SlowRow(r) ==
    <<ToString(r.Pair_ID), r.Strategy, r.Persona_ID, CsvField(r.Choice),
      CsvField(r.Rationale), CsvField(r.Difficulty_Ranking),
      CsvField(r.Difficulty_Reasoning)>>

SlowInit ==
    /\ pc = "slow_idle"
    /\ pairs = <<>>
    /\ fileExists = FALSE
    /\ disk = <<>>
    /\ buf = <<>>
    /\ write_header = FALSE
    /\ all_results = <<>>
    /\ idx = 0
    /\ pidx = 0
    /\ attempt = 0
    /\ calls = 0
    /\ nRate = 0
    /\ nsleeps = 0
    /\ lastSleep = 0
    /\ last = "none"
    /\ result = None
    /\ started = 0
    /\ skipped = 0
    /\ tasks = <<>>
    /\ paces = <<>>
    /\ report = FALSE
    /\ exc = "none"

\* lines 203-205: IMAGE_DIR does not exist
SlowMainNoDir ==
    /\ pc = "slow_idle"
    /\ pc' = "slow_done"
    /\ UNCHANGED <<pairs, store, write_header, all_results, idx, pidx,
                   controller, result, counters, report, exc>>

\* lines 200-215
SlowDiscover ==
    /\ pc = "slow_idle"
    /\ \E p \in PairMaps : pairs' = p
    /\ all_results' = <<>>
    /\ pc' = "slow_open"
    /\ UNCHANGED <<store, write_header, idx, pidx, controller, result,
                   counters, report, exc>>

\* lines 218-220: the store is created or truncated, the header is written
SlowOpenStore ==
    /\ pc = "slow_open"
    /\ fileExists' = TRUE
    /\ disk' = <<>>
    /\ buf' = <<SlowHeader>>
    /\ pc' = "slow_loop"
    /\ UNCHANGED <<pairs, write_header, all_results, idx, pidx, controller,
                   result, counters, report, exc>>

\* lines 222-223: the next pair lacks a side
SlowSkipPair ==
    /\ pc = "slow_loop"
    /\ Rest # {}
    /\ NextKey \notin Complete(pairs)
    /\ idx' = NextKey
    /\ UNCHANGED <<pc, pairs, store, write_header, all_results, pidx,
                   controller, result, counters, report, exc>>

\* lines 222-230: the next pair has both sides
SlowEnterPair ==
    /\ pc = "slow_loop"
    /\ Rest # {}
    /\ NextKey \in Complete(pairs)
    /\ idx' = NextKey
    /\ pidx' = 1
    /\ pc' = "slow_task"
    /\ UNCHANGED <<pairs, store, write_header, all_results, controller,
                   result, counters, report, exc>>

\* the pair loop is exhausted, the with block closes f
SlowCloseStore ==
    /\ pc = "slow_loop"
    /\ Rest = {}
    /\ disk' = disk \o buf
    /\ buf' = <<>>
    /\ pc' = "slow_report"
    /\ UNCHANGED <<pairs, fileExists, write_header, all_results, idx, pidx,
                   controller, result, counters, report, exc>>

\* lines 233, 58-59: reading an image raises; the calls of encode_image are
\* outside the try statement of analyze_pair
SlowEncodeFail ==
    /\ pc = "slow_task"
    /\ started' = started + 1
    /\ tasks' = Append(tasks, <<idx, PERSONAS[pidx]>>)
    /\ disk' = disk \o buf
    /\ buf' = <<>>
    /\ exc' = "OSError"
    /\ pc' = "slow_crashed"
    /\ UNCHANGED <<pairs, fileExists, write_header, all_results, idx, pidx,
                   controller, result, skipped, paces, report>>

\* lines 233, 94-111: the service returns content that json.loads decodes;
\* the decoded value is returned whatever it is
SlowAnalyzeData ==
    /\ pc = "slow_task"
    /\ started' = started + 1
    /\ tasks' = Append(tasks, <<idx, PERSONAS[pidx]>>)
    /\ \E c \in SlowContents :
         /\ Decodes(c)
         /\ result' = json_loads(c.v).val
    /\ pc' = "slow_ret"
    /\ UNCHANGED <<pairs, store, write_header, all_results, idx, pidx,
                   controller, skipped, paces, report, exc>>

\* lines 112-114: the service call raises, or json.loads raises (content is
\* None, empty or not JSON): None is returned
SlowAnalyzeNone ==
    /\ pc = "slow_task"
    /\ started' = started + 1
    /\ tasks' = Append(tasks, <<idx, PERSONAS[pidx]>>)
    /\ \E c \in SlowContents \cup {Str("raised")} :
         /\ ~Decodes(c)
         /\ result' = None
    /\ pc' = "slow_ret"
    /\ UNCHANGED <<pairs, store, write_header, all_results, idx, pidx,
                   controller, skipped, paces, report, exc>>

\* line 230: the persona loop goes on, or ends and the pair loop goes on
SlowAdvance ==
    IF pidx < Len(PERSONAS)
      THEN pidx' = pidx + 1 /\ pc' = "slow_task"
      ELSE pidx' = pidx /\ pc' = "slow_loop"

\* line 241: data.get('rationale')[:150] can be evaluated
Sliceable(x) == x.t \in {"str", "list"}

\* line 235: data is falsy (None, {} or another empty value)
SlowSkip ==
    /\ pc = "slow_ret"
    /\ ~PyTruthy(result)
    /\ skipped' = skipped + 1
    /\ result' = None
    /\ SlowAdvance
    /\ UNCHANGED <<pairs, store, write_header, all_results, idx, controller,
                   started, tasks, paces, report, exc>>

\* lines 235-256: data is truthy; the row is appended to all_results and
\* written to f
SlowRecord ==
    /\ pc = "slow_ret"
    /\ PyTruthy(result)
    /\ result.t = "dict"
    /\ Sliceable(Get(result, "rationale"))
    /\ all_results' =
         Append(all_results, SlowMakeRow(idx, PERSONAS[pidx], result))
    /\ buf' = Append(buf, SlowRow(SlowMakeRow(idx, PERSONAS[pidx], result)))
    /\ result' = None
    /\ SlowAdvance
    /\ UNCHANGED <<pairs, fileExists, disk, write_header, idx, controller,
                   counters, report, exc>>

\* lines 238-241: data is truthy and has no get (AttributeError), or its
\* rationale is missing or null, so that None[:150] raises TypeError; the
\* exception leaves main, the with block closes f
SlowRecordRaises ==
    /\ pc = "slow_ret"
    /\ PyTruthy(result)
    /\ ~(result.t = "dict" /\ Sliceable(Get(result, "rationale")))
    /\ exc' = IF result.t = "dict" THEN "TypeError" ELSE "AttributeError"
    /\ disk' = disk \o buf
    /\ buf' = <<>>
    /\ pc' = "slow_crashed"
    /\ UNCHANGED <<pairs, fileExists, write_header, all_results, idx, pidx,
                   controller, result, counters, report>>

\* lines 116-194, 259-262: the report is written
SlowReport ==
    /\ pc = "slow_report"
    /\ DOMAIN pairs \subseteq Complete(pairs)
    /\ report' = TRUE
    /\ pc' = "slow_done"
    /\ UNCHANGED <<pairs, store, write_header, all_results, idx, pidx,
                   controller, result, counters, exc>>

\* lines 142-145: pairs[pair_id]["A"] or ["B"] raises KeyError
SlowReportKeyError ==
    /\ pc = "slow_report"
    /\ ~(DOMAIN pairs \subseteq Complete(pairs))
    /\ exc' = "KeyError"
    /\ pc' = "slow_crashed"
    /\ UNCHANGED <<pairs, store, write_header, all_results, idx, pidx,
                   controller, result, counters, report>>

\* the script is started again
SlowRerun ==
    /\ pc \in {"slow_done", "slow_crashed"}
    /\ pc' = "slow_idle"
    /\ pairs' = <<>>
    /\ all_results' = <<>>
    /\ idx' = 0
    /\ pidx' = 0
    /\ result' = None
    /\ started' = 0
    /\ skipped' = 0
    /\ tasks' = <<>>
    /\ paces' = <<>>
    /\ report' = FALSE
    /\ exc' = "none"
    /\ UNCHANGED <<store, write_header, controller>>

SlowNext ==
    \/ SlowMainNoDir
    \/ SlowDiscover
    \/ SlowOpenStore
    \/ SlowSkipPair
    \/ SlowEnterPair
    \/ SlowCloseStore
    \/ SlowEncodeFail
    \/ SlowAnalyzeData
    \/ SlowAnalyzeNone
    \/ SlowSkip
    \/ SlowRecord
    \/ SlowRecordRaises
    \/ SlowReport
    \/ SlowReportKeyError
    \/ SlowRerun

\* a run of run_pvp__slow.py
SlowSpec == SlowInit /\ [][SlowNext]_vars

\* a run of either script
BothSpec == (Init \/ SlowInit) /\ [][Next \/ SlowNext]_vars

-----------------------------------------------------------------------------
(* The record of a verdict and its row, run_fast.py lines 106-115 and 243:  *)
(* two verdicts are decoded, their records built and written to an empty    *)
(* store.                                                                   *)

\* a field that the decoded object does not have
Absent == [t |-> "absent"]

\* what the service may put in the fields of the object: nothing, null, an
\* empty string or a string; a list as well for difficulty_ranking
ChoiceValues == {Absent, None, Str(""), Str("A")}
TextValues == {Absent, None, Str(""), Str("r")}
RankingValues == {Absent, None, Str(""), Str("Easy"),
                  List(<<Str("Easy"), Str("Hard")>>)}

VerdictKeys ==
    {"chosen_image", "rationale", "difficulty_ranking", "difficulty_reason"}

\* the decoded object with the four fields, absent ones left out
VerdictData(c, r, k, d) ==
    LET field == [chosen_image |-> c, rationale |-> r,
                  difficulty_ranking |-> k, difficulty_reason |-> d]
    IN  Dict([key \in {x \in VerdictKeys : field[x] # Absent} |-> field[key]])

Verdicts ==
    {VerdictData(c, r, k, d) : c \in ChoiceValues, r \in TextValues,
                               k \in RankingValues, d \in TextValues}

RowInit ==
    /\ pc = "row_first"
    /\ pairs = <<>>
    /\ fileExists = TRUE
    /\ disk = <<>>
    /\ buf = <<>>
    /\ write_header = FALSE
    /\ all_results = <<>>
    /\ idx = 0
    /\ pidx = 0
    /\ attempt = 0
    /\ calls = 0
    /\ nRate = 0
    /\ nsleeps = 0
    /\ lastSleep = 0
    /\ last = "none"
    /\ result = None
    /\ started = 0
    /\ skipped = 0
    /\ tasks = <<>>
    /\ paces = <<>>
    /\ report = FALSE
    /\ exc = "none"

\* lines 106-115, 243-245: the record of a verdict is built for a task,
\* written, flushed and kept
RowWrite(i, p, data) ==
    /\ idx' = i
    /\ pidx' = p
    /\ result' = MakeRecord(i, PERSONAS[p], data)
    /\ disk' = Append(disk, Row(MakeRecord(i, PERSONAS[p], data)))
    /\ all_results' = Append(all_results, MakeRecord(i, PERSONAS[p], data))
    /\ UNCHANGED <<pairs, fileExists, buf, write_header, controller,
                   counters, report, exc>>

RowFirst ==
    /\ pc = "row_first"
    /\ \E i \in PairIds, p \in 1..Len(PERSONAS), data \in Verdicts :
         RowWrite(i, p, data)
    /\ pc' = "row_second"

RowSecond ==
    /\ pc = "row_second"
    /\ \E i \in PairIds, p \in 1..Len(PERSONAS), data \in Verdicts :
         RowWrite(i, p, data)
    /\ pc' = "row_done"

RowNext == RowFirst \/ RowSecond

\* records and their rows
RowSpec == RowInit /\ [][RowNext]_vars

-----------------------------------------------------------------------------
(* Vocabulary of the properties *)

\* the tasks of the run: every pair with both sides, under every persona
NumTasks == Cardinality(Complete(pairs)) * Len(PERSONAS)

\* the rows of a file content that are not the header row
DataRows(rows) == SelectSeq(rows, LAMBDA r : r # fieldnames)

\* the rows that the records of a list are written as
RowsOf(records) == [i \in 1..Len(records) |-> Row(records[i])]

IsPrefix(s, t) == Len(s) <= Len(t) /\ SubSeq(t, 1, Len(s)) = s

-----------------------------------------------------------------------------
(* Properties *)

\* C1: when the pair loop of main ends, analyze_pair_sequential has been
\* called for every task of the batch, whatever each call ended in (verdict,
\* rate limit or transient error until exhaustion, empty content, malformed
\* content, unclassified error), and all_results holds one record for every
\* task that did not end in None.
C1_BatchProcessesAllTasks ==
    pc = "report" =>
        /\ started = NumTasks
        /\ Len(all_results) = NumTasks - skipped

\* a batch of four tasks ended with two of them skipped and two recorded
C1_Witness ==
    /\ pc = "report"
    /\ NumTasks = 4
    /\ skipped = 2
    /\ Len(all_results) = 2

\* C2: no exception leaves analyze_pair_sequential: a failure to read an
\* image file, like a failure of the service call or of the parsing, ends in
\* a record or None.
C2_NoExceptionLeavesController == exc # "OSError"

\* C3: while the service has answered every call of the task with
\* RateLimitError the controller goes on calling until it has made
\* max_retries calls, then returns None; it never makes more than max_retries
\* calls; and main records nothing for that task.
C3_RateLimitExhaustion ==
    /\ [](calls <= max_retries)
    /\ []((nRate = calls /\ calls > 0) =>
            IF calls < max_retries
              THEN pc = "call"
              ELSE pc = "ret" /\ result = None)
    /\ [][(pc = "ret" /\ nRate = max_retries) =>
            (pc' = "pace" /\ UNCHANGED <<disk, buf, all_results>>)]_vars

\* the controller has returned after five calls that all hit the rate limit
C3_Witness ==
    /\ pc = "ret"
    /\ nRate = max_retries
    /\ calls = max_retries
    /\ result = None

\* C4: when the service has raised RateLimitError k times (k < max_retries)
\* and then returns content that decodes to an object, the controller has
\* made k+1 calls and slept k times and returns the record of that call; the
\* i-th of these sleeps lasts RateLimitBase*i plus a jitter in
\* [JitterMin, JitterMax], and each lasts longer than the one before it
\* whatever the jitters are; with k = 0 the controller has not slept.
C4_BackoffThenVerdict ==
    /\ []((nRate = nsleeps /\ nsleeps > 0) =>
            /\ lastSleep >= RateLimitBase * nsleeps + JitterMin
            /\ lastSleep <= RateLimitBase * nsleeps + JitterMax)
    /\ []((pc = "ret" /\ last = "verdict" /\ nRate = calls - 1) =>
            /\ nRate < max_retries
            /\ nsleeps = nRate
            /\ (nRate = 0 => lastSleep = 0)
            /\ Truthy(result)
            /\ result.Pair_ID = idx
            /\ result.Persona_ID = PERSONAS[pidx])
    /\ [][(nRate' = nsleeps' /\ nsleeps' = nsleeps + 1 /\ nsleeps >= 1) =>
            lastSleep' > lastSleep]_vars

\* a verdict returned by the fifth call, after four rate limits and four sleeps
C4_Witness ==
    /\ pc = "ret"
    /\ last = "verdict"
    /\ nRate = max_retries - 1
    /\ calls = max_retries
    /\ nsleeps = max_retries - 1
    /\ Truthy(result)

\* the key (pair id, persona id) of the task a data row belongs to
RowKey(row) == <<row[1], row[3]>>

\* no two entries of a sequence of keys are equal
Distinct(keys) ==
    \A i, j \in 1..Len(keys) : i # j => keys[i] # keys[j]

\* C5: within one run no task has more than one row in the store or more than
\* one record in all_results; once the row and the record of a task whose
\* controller returned a verdict are written, the last row of the store and
\* the last record of all_results are that task's; and every record carries
\* the Pair_ID, Strategy and Persona_ID of a task of the run and Status
\* "Success".
C5_OneRecordPerTask ==
    /\ Distinct([i \in 1..Len(DataRows(disk \o buf)) |->
                    RowKey(DataRows(disk \o buf)[i])])
    /\ Distinct([i \in 1..Len(all_results) |->
                    <<all_results[i].Pair_ID, all_results[i].Persona_ID>>])
    /\ \A i \in 1..Len(all_results) :
         /\ all_results[i].Pair_ID \in Complete(pairs)
         /\ all_results[i].Strategy = Strategy(all_results[i].Pair_ID)
         /\ \E k \in 1..Len(PERSONAS) : all_results[i].Persona_ID = PERSONAS[k]
         /\ all_results[i].Status = Str("Success")
    /\ (pc = "pace" /\ Truthy(result)) =>
         /\ all_results # <<>>
         /\ all_results[Len(all_results)] = result
         /\ result.Pair_ID = idx
         /\ result.Persona_ID = PERSONAS[pidx]
         /\ disk # <<>>
         /\ disk[Len(disk)] = Row(result)
         /\ Len(DataRows(disk)) = Len(all_results)
    /\ (pc = "pace" /\ ~Truthy(result)) =>
         \A i \in 1..Len(all_results) :
            <<all_results[i].Pair_ID, all_results[i].Persona_ID>>
                # <<idx, PERSONAS[pidx]>>

\* the second task of a pair has just been recorded, after the first one was
C5_Witness ==
    /\ pc = "pace"
    /\ Truthy(result)
    /\ pidx = 2
    /\ Len(all_results) = 2
    /\ Len(DataRows(disk)) = 2

\* C6: every data row of the store has Choice "A" or "B"; content that
\* decodes to an object without a valid chosen_image produces no row.
C6_ChoiceIsAOrB ==
    \A i \in 1..Len(DataRows(disk)) : DataRows(disk)[i][4] \in {"A", "B"}

\* C7: whenever the service is about to be called, the rows of all tasks
\* recorded so far are on disk and no data row waits in the buffer of f.
C7_FlushedBeforeNextCall ==
    pc \in {"task", "call"} =>
        /\ DataRows(buf) = <<>>
        /\ DataRows(disk) = RowsOf(all_results)

\* the service is being called for a task while the row of an earlier task
\* of the run is on disk
C7_Witness ==
    /\ pc = "call"
    /\ calls = 0
    /\ started >= 2
    /\ all_results # <<>>
    /\ DataRows(disk) = RowsOf(all_results)

\* C8: no step removes a data row from the store: the rows that an earlier
\* run left in the store stay there, and a later run adds its rows after them.
C8_RerunKeepsEarlierRows ==
    [][IsPrefix(DataRows(disk), DataRows(disk'))]_vars

\* C9: content that is empty makes the controller return None on that
\* attempt: the call that got it is the last call of the task, no sleep
\* follows it, and main records nothing; on every attempt.
C9_EmptyContentSkips ==
    /\ [](last = "empty" =>
            /\ pc = "ret"
            /\ result = None
            /\ calls = attempt + 1
            /\ nsleeps = attempt)
    /\ [][(last = "empty") =>
            (pc' = "pace" /\ UNCHANGED <<disk, buf, all_results>>)]_vars

\* empty content arrived on the fifth attempt, after four retried failures
C9_Witness ==
    /\ pc = "ret"
    /\ last = "empty"
    /\ attempt = max_retries - 1
    /\ nsleeps = max_retries - 1
    /\ result = None

\* C10: a failure that is neither RateLimitError nor APIError (the service
\* call raises another exception, the content is not JSON, or the JSON is
\* not an object) makes the controller return None on that attempt, with no
\* sleep and no further call, also when attempts remain.
C10_UnclassifiedFailureSkips ==
    /\ [](last \in {"malformed", "error"} =>
            /\ pc = "ret"
            /\ result = None
            /\ calls = attempt + 1
            /\ nsleeps = attempt)
    /\ [][(last \in {"malformed", "error"}) =>
            (pc' = "pace" /\ UNCHANGED <<disk, buf, all_results>>)]_vars

\* content that does not parse arrived on the second attempt of five
C10_Witness ==
    /\ pc = "ret"
    /\ last = "malformed"
    /\ attempt = 1
    /\ calls = 2
    /\ nsleeps = 1
    /\ result = None

\* C11: an APIError that is not a rate limit is followed by a sleep of
\* ApiErrorSleep seconds on every attempt and uses up one attempt; rate limits
\* and these errors draw on the same budget: however they alternate, a retry
\* follows each failure while fewer than max_retries calls were made, the
\* controller never makes more than max_retries calls, and it returns None
\* after the failure of call max_retries.
C11_TransientErrorsShareBudget ==
    /\ [](last = "api_error" => lastSleep = ApiErrorSleep)
    /\ [](last \in {"rate_limit", "api_error"} =>
            /\ attempt = calls
            /\ nsleeps = calls
            /\ calls <= max_retries
            /\ IF calls < max_retries
                 THEN pc = "call"
                 ELSE pc = "ret" /\ result = None)
    /\ [][(last' = "api_error" /\ calls' # calls) =>
            /\ calls' = calls + 1
            /\ attempt' = attempt + 1
            /\ nsleeps' = nsleeps + 1
            /\ lastSleep' = ApiErrorSleep]_vars

\* the budget ran out on a transient error after rate limits and transient
\* errors had alternated
C11_Witness ==
    /\ pc = "ret"
    /\ last = "api_error"
    /\ calls = max_retries
    /\ nRate = 2
    /\ lastSleep = ApiErrorSleep
    /\ result = None

\* Every step of the process is eventually taken: the service answers each
\* call (it returns or raises), sleeps end, and file operations complete.
FairSpec == Spec /\ WF_vars(Next)

\* every call of the controller returns: no task is retried for ever
ControllerReturns == (pc = "call") ~> (pc = "ret")

\* C12: main terminates with the work done: when a run of main has ended,
\* the controller has been called for every task of the task sequence and
\* every one of these calls has ended in a record (Done) or in None (Skipped).
C12_MainEndsWithEveryTaskResolved ==
    pc \in {"done", "crashed"} =>
        /\ started = NumTasks
        /\ started = Len(all_results) + skipped


\* the tasks of a batch: every pair with both sides against every persona
AllTasks == {<<i, PERSONAS[p]>> : i \in Complete(pairs), p \in 1..Len(PERSONAS)}

\* the pair loops of both scripts: the controller is called, and a record is
\* kept, only for pairs with both sides, and for no task twice
OnlyEligiblePairsAreTasks ==
    /\ \A k \in 1..Len(tasks) : tasks[k][1] \in Complete(pairs)
    /\ \A k \in 1..Len(all_results) :
         all_results[k].Pair_ID \in Complete(pairs)
    /\ Distinct(tasks)

MainEnded == pc \in {"done", "crashed", "slow_done", "slow_crashed"}

\* C13: in both scripts the service is called only for pair ids with both an
\* "A" and a "B" entry, such ids only appear in the records, and when main
\* has ended every pair with both sides has been evaluated once against
\* every persona of the roster.
C13_EligiblePairsEvaluatedOncePerPersona ==
    /\ OnlyEligiblePairsAreTasks
    /\ (MainEnded /\ pairs # <<>>) =>
          {tasks[k] : k \in 1..Len(tasks)} = AllTasks

\* position of a persona in the roster PERSONAS
RosterIndex(persona) ==
    CHOOSE p \in 1..Len(PERSONAS) : PERSONAS[p] = persona

\* task s comes before task t: smaller pair id, or the same pair and an
\* earlier persona of the roster
Before(s, t) ==
    \/ s[1] < t[1]
    \/ s[1] = t[1] /\ RosterIndex(s[2]) < RosterIndex(t[2])

Ascending(keys) ==
    \A k, l \in 1..Len(keys) : k < l => Before(keys[k], keys[l])

\* the task that a data row of the store was written for
RowTask(row) == <<CHOOSE i \in PairIds : ToString(i) = row[1], row[3]>>

\* the tasks of the data rows of the store: written out or still buffered
StoredTasks ==
    [k \in 1..Len(DataRows(disk \o buf)) |->
        RowTask(DataRows(disk \o buf)[k])]

\* C14: the tasks of a run are started in ascending pair id order and,
\* within a pair, in roster order; the data rows of the store of one run are
\* in that same order, whichever tasks were skipped.
C14_TasksAndRowsInTaskOrder ==
    /\ Ascending(tasks)
    /\ Ascending(StoredTasks)

\* a batch of four tasks: the first and the last were skipped, the rows of
\* the other two are in the store in task order
C14_Witness ==
    /\ pc = "report"
    /\ Len(tasks) = 4
    /\ StoredTasks = <<<<1, PERSONAS[2]>>, <<2, PERSONAS[1]>>>>

\* the run is between tasks: every started task has ended
BetweenTasks == pc \in {"task", "loop", "report", "done"}

\* the last started task is being handled: in the controller, or in the body
\* of the persona loop before its pacing sleep
InTask == pc \in {"call", "ret", "flush", "append", "pace"}

\* C15: after every task, ended in a verdict or in None, main sleeps exactly
\* once, for 1 second, before the first service call of the next task: while
\* a task is handled one pacing sleep has been made for each earlier task,
\* and between tasks one for each started task.
C15_OnePacingSleepPerTask ==
    /\ \A k \in 1..Len(paces) : paces[k] = PacingSleep
    /\ InTask => Len(paces) = started - 1
    /\ BetweenTasks => Len(paces) = started

\* the third task is at its first service call after a skipped task and a
\* recorded one: two pacing sleeps of 1 second have been made
C15_Witness ==
    /\ pc = "call"
    /\ calls = 0
    /\ started = 3
    /\ skipped = 1
    /\ Len(all_results) = 1
    /\ paces = <<PacingSleep, PacingSleep>>

\* the retry loop of every controller call starts at attempt 0, whatever
\* earlier calls consumed, and attempt counts the service calls of this
\* controller call only
BudgetIsPerTask ==
    /\ []((pc = "call" /\ calls = 0) => (attempt = 0 /\ nsleeps = 0))
    /\ [](pc = "call" => (attempt = calls /\ calls < max_retries))

\* C16 as stated: the retry budget is per task, and the first rate-limit
\* backoff of a task is 5 plus jitter.
C16_FirstRateLimitBackoffIsBase ==
    /\ BudgetIsPerTask
    /\ [][(nRate = 0 /\ nRate' = 1) =>
            \E j \in Jitter : lastSleep' = RateLimitBase + j]_vars

\* C16: the retry budget is per task: every controller call starts at
\* attempt 0 with max_retries attempts; a rate limit at the i-th service call
\* of the task (rate limits and API errors of the same task counted alike,
\* earlier tasks not at all) is followed by a backoff of RateLimitBase*i plus
\* jitter, so that a rate limit at the first call of a task backs off 5 plus
\* jitter.
C16_BackoffCountsOwnAttempts ==
    /\ BudgetIsPerTask
    /\ [][(nRate' = nRate + 1) =>
            \E j \in Jitter : lastSleep' = RateLimitBase * (calls + 1) + j]_vars
    /\ [][(nRate' = nRate + 1 /\ calls = 0) =>
            \E j \in Jitter : lastSleep' = RateLimitBase + j]_vars

\* the second task, started after a skipped first task, has backed off
\* 5 plus the smallest jitter after a rate limit at its first service call
C16_Witness ==
    /\ pc = "call"
    /\ started = 2
    /\ skipped = 1
    /\ calls = 1
    /\ last = "rate_limit"
    /\ lastSleep = RateLimitBase + JitterMin

\* C17: writing records to the store is lossless: two different records
\* never have the same row, so that a record can be told from its row.
C17_RowsTellRecordsApart ==
    \A k, l \in 1..Len(all_results) :
        all_results[k] # all_results[l] => disk[k] # disk[l]

\* C18: when IMAGE_DIR does not exist main returns at once without raising:
\* the step from the start of main to its end makes no service call, leaves
\* the store file as it was (not created, not truncated, not written) and
\* generates no report.
C18_MissingDirReturnsEarly ==
    [][(pc = "idle" /\ pc' = "done") =>
          /\ UNCHANGED <<fileExists, disk, buf>>
          /\ started' = 0 /\ calls' = 0 /\ tasks' = <<>>
          /\ report' = FALSE
          /\ exc' = "none"]_vars

\* main has returned without a report and without a task, and the store
\* still holds the data rows of the run before
C18_Witness ==
    /\ pc = "done"
    /\ ~report
    /\ started = 0
    /\ exc = "none"
    /\ fileExists
    /\ Len(DataRows(disk)) = 2

\* C19: in run_pvp__slow.py no response of the service to a task (an error,
\* empty content, a JSON object with any subset of the fields) makes main
\* raise: handling a response raises neither TypeError nor AttributeError,
\* and the pair loop ends with every task of the batch started.
C19_SlowBatchSurvivesEveryResponse ==
    /\ exc \notin {"TypeError", "AttributeError"}
    /\ pc = "slow_report" => started = NumTasks

\* C20: when main has run the batch and closed the store, the store file is
\* one header row followed by data rows only, whether the file was absent or
\* present when main started.
C20_StoreIsHeaderThenRows ==
    pc = "report" =>
        /\ Len(disk) >= 1
        /\ disk[1] = fieldnames
        /\ Len(DataRows(disk)) = Len(disk) - 1

\* C21: between two tasks of one run (after the body of the persona loop for
\* one task, before the controller is called for the next) all_results holds
\* exactly the records whose rows were written to the store in this run, in
\* the same order, and all of these rows are flushed or, before the first
\* flush, behind the header in the buffer.
C21_AccumulatorMirrorsStore ==
    pc \in {"pace", "task", "loop"} =>
        /\ RowsOf(all_results) = DataRows(disk \o buf)
        /\ DataRows(buf) = <<>>

\* the third task is about to start; two records were kept, for the second
\* persona of pair 1 and the first of pair 2, and their rows are on disk
C21_Witness ==
    /\ pc = "task"
    /\ started = 3
    /\ skipped = 1
    /\ Len(all_results) = 2
    /\ all_results[1].Persona_ID = PERSONAS[2]
    /\ all_results[2].Pair_ID = 2
    /\ DataRows(disk) = RowsOf(all_results)

\* C22: for every pair map, also one in which a pair id has only one side,
\* generate_html_report leaves the incomplete pair out and does not raise:
\* once the batch is over main ends with the report written and with no
\* KeyError.
C22_ReportSkipsIncompletePairs ==
    /\ exc # "KeyError"
    /\ pc = "report" => ENABLED Report

Retryable == {"rate_limit", "api_error"}

\* C23: every service call that raises RateLimitError or APIError is followed
\* by exactly one sleep in the controller, the call of the last attempt
\* included, and a call that ends otherwise by none; a controller call that
\* exhausts its budget has made max_retries service calls and max_retries
\* sleeps when it returns None, so that no service call follows its last
\* sleep.
C23_SleepAfterEveryRetryableFailure ==
    /\ [][(calls' = calls + 1) =>
            nsleeps' = IF last' \in Retryable THEN nsleeps + 1 ELSE nsleeps]_vars
    /\ []((pc = "ret" /\ last \in Retryable) =>
            /\ calls = max_retries
            /\ nsleeps = max_retries
            /\ lastSleep > 0
            /\ result = None)
    /\ [](calls <= max_retries /\ nsleeps <= calls)

\* a controller call has returned None after five failed calls, one of them
\* rate limited, the last one too, and five sleeps
C23_Witness ==
    /\ pc = "ret"
    /\ last = "rate_limit"
    /\ nRate = 1
    /\ calls = max_retries
    /\ nsleeps = max_retries
    /\ lastSleep = RateLimitBase * max_retries + JitterMax
    /\ result = None

====
